---- MODULE Spec2Model ----
(***************************************************************************)
(* Model of kernel_cleaner.py: the selection of the oldest removable       *)
(* kernel and the removal workflow of KernelCleaner, driven by main().     *)
(* Strings are sequences of one-character strings, so that the regular     *)
(* expressions, substring tests, splits and sorts of the source are        *)
(* computed as Python computes them.                                       *)
(***************************************************************************)
EXTENDS Integers, Sequences, FiniteSets, TLC

(* ------------------------------------------------------------------ *)
(* Characters and Python string primitives                             *)
(* ------------------------------------------------------------------ *)

Digits == <<"0", "1", "2", "3", "4", "5", "6", "7", "8", "9">>

DigitSet == {Digits[i] : i \in 1..Len(Digits)}

DigitValues == [c \in DigitSet |-> (CHOOSE i \in 1..Len(Digits) : Digits[i] = c) - 1]

IsDigit(c) == c \in DigitSet

DigitVal(c) == DigitValues[c]

\* Code point order of the characters a matched version can hold:
\* "-" (45) < "." (46) < "0".."9" (48..57).
Ord(c) == IF c = "-" THEN 45 ELSE IF c = "." THEN 46 ELSE 48 + DigitVal(c)

IsSpace(c) == c \in {" ", "\t", "\n"}

UpperAlpha == <<"A", "B", "C", "D", "E", "F", "G", "H", "I", "J", "K", "L", "M",
                "N", "O", "P", "Q", "R", "S", "T", "U", "V", "W", "X", "Y", "Z">>

LowerAlpha == <<"a", "b", "c", "d", "e", "f", "g", "h", "i", "j", "k", "l", "m",
                "n", "o", "p", "q", "r", "s", "t", "u", "v", "w", "x", "y", "z">>

UpperSet == {UpperAlpha[i] : i \in 1..Len(UpperAlpha)}

LowerOf == [c \in UpperSet |-> LowerAlpha[CHOOSE i \in 1..Len(UpperAlpha) : UpperAlpha[i] = c]]

\* str.lower() on one character
LowerChar(c) == IF c \in UpperSet THEN LowerOf[c] ELSE c

\* str.lower()
Lower(s) == [i \in 1..Len(s) |-> LowerChar(s[i])]

RECURSIVE LStrip(_)
LStrip(s) == IF s # <<>> /\ IsSpace(Head(s)) THEN LStrip(Tail(s)) ELSE s

RECURSIVE RStrip(_)
RStrip(s) ==
  IF s # <<>> /\ IsSpace(s[Len(s)]) THEN RStrip(SubSeq(s, 1, Len(s) - 1)) ELSE s

\* str.strip()
Strip(s) == RStrip(LStrip(s))

\* s[i:].startswith(p), 1-based
IsPrefixAt(p, s, i) ==
  /\ i + Len(p) - 1 <= Len(s)
  /\ \A k \in 1..Len(p) : s[i + k - 1] = p[k]

\* str.startswith
StartsWith(s, p) == IsPrefixAt(p, s, 1)

\* p in s
Contains(p, s) == \E i \in 1..(Len(s) - Len(p) + 1) : IsPrefixAt(p, s, i)

\* Index just after the word (run of non-blanks) that starts at i
RECURSIVE WordEnd(_, _)
WordEnd(s, i) == IF i <= Len(s) /\ ~IsSpace(s[i]) THEN WordEnd(s, i + 1) ELSE i

\* str.split() with no argument: the maximal runs of non-blank characters
RECURSIVE SplitFrom(_, _)
SplitFrom(s, i) ==
  IF i > Len(s) THEN <<>>
  ELSE IF IsSpace(s[i]) THEN SplitFrom(s, i + 1)
  ELSE LET e == WordEnd(s, i)
       IN  <<SubSeq(s, i, e - 1)>> \o SplitFrom(s, e)

Split(s) == SplitFrom(s, 1)

\* int() of a string of digits
RECURSIVE ToInt(_)
ToInt(s) ==
  IF s = <<>> THEN 0
  ELSE 10 * ToInt(SubSeq(s, 1, Len(s) - 1)) + DigitVal(s[Len(s)])

(* ------------------------------------------------------------------ *)
(* The regular expression \d+\.\d+\.\d+-\d+                            *)
(* ------------------------------------------------------------------ *)

\* Index just after the greedy match of \d* at i
RECURSIVE DigitsEnd(_, _)
DigitsEnd(s, i) == IF i <= Len(s) /\ IsDigit(s[i]) THEN DigitsEnd(s, i + 1) ELSE i

\* Match of (\d+)\.(\d+)\.(\d+)-(\d+) at position i: the four groups as
\* <<start, end>> index pairs, or <<>> when the pattern does not match at i.
\* Each \d+ is followed by a non-digit literal (or the end), so the greedy
\* match is the only candidate.
MatchVersionAt(s, i) ==
  LET a == DigitsEnd(s, i) IN
  IF a = i \/ a > Len(s) \/ s[a] # "." THEN <<>>
  ELSE LET b == DigitsEnd(s, a + 1) IN
  IF b = a + 1 \/ b > Len(s) \/ s[b] # "." THEN <<>>
  ELSE LET c == DigitsEnd(s, b + 1) IN
  IF c = b + 1 \/ c > Len(s) \/ s[c] # "-" THEN <<>>
  ELSE LET d == DigitsEnd(s, c + 1) IN
  IF d = c + 1 THEN <<>>
  ELSE << <<i, a - 1>>, <<a + 1, b - 1>>, <<b + 1, c - 1>>, <<c + 1, d - 1>> >>

(* ------------------------------------------------------------------ *)
(* Literals of the source                                              *)
(* ------------------------------------------------------------------ *)

\* 'ii', the dpkg state of an installed package (lines 40, 91)
II == <<"i", "i">>

\* 'linux-image-' (lines 40, 45, 96)
LinuxImage == <<"l", "i", "n", "u", "x", "-", "i", "m", "a", "g", "e", "-">>

\* 'linux-headers-' (line 96)
LinuxHeaders == <<"l", "i", "n", "u", "x", "-", "h", "e", "a", "d", "e", "r", "s", "-">>

\* 'linux-modules-' (line 96)
LinuxModules == <<"l", "i", "n", "u", "x", "-", "m", "o", "d", "u", "l", "e", "s", "-">>

\* ['linux-image-', 'linux-headers-', 'linux-modules-'] (line 96)
KernelPrefixes == <<LinuxImage, LinuxHeaders, LinuxModules>>

\* ['oui', 'o', 'yes', 'y'] (line 155)
Affirmative == {<<"o", "u", "i">>, <<"o">>, <<"y", "e", "s">>, <<"y">>}

\* The absent result (Python None); no version string is empty
None == <<>>

(* ------------------------------------------------------------------ *)
(* KernelCleaner: the pure part                                        *)
(* ------------------------------------------------------------------ *)

\* Index just after the run of digits, dots and dashes that starts at i
RECURSIVE LooseEnd(_, _)
LooseEnd(s, i) ==
  IF i <= Len(s) /\ (IsDigit(s[i]) \/ s[i] \in {".", "-"}) THEN LooseEnd(s, i + 1) ELSE i

\* Mutant of ImageVersion: the pattern linux-image-(\d[\d.-]*)
ImageVersionLoose(package) ==
  LET hits == {i \in 1..Len(package) :
                 /\ IsPrefixAt(LinuxImage, package, i)
                 /\ i + Len(LinuxImage) <= Len(package)
                 /\ IsDigit(package[i + Len(LinuxImage)])}
  IN IF hits = {} THEN None
     ELSE LET i == CHOOSE h \in hits : \A g \in hits : h <= g
          IN  SubSeq(package, i + Len(LinuxImage),
                     LooseEnd(package, i + Len(LinuxImage)) - 1)

\* re.search(r'linux-image-(\d+\.\d+\.\d+-\d+)', package).group(1), or None:
\* the leftmost position where the whole pattern matches
ImageVersion(package) ==
  LET hits == {i \in 1..Len(package) :
                 /\ IsPrefixAt(LinuxImage, package, i)
                 /\ MatchVersionAt(package, i + Len(LinuxImage)) # <<>>}
  IN IF hits = {} THEN None
     ELSE LET i == CHOOSE h \in hits : \A g \in hits : h <= g
              m == MatchVersionAt(package, i + Len(LinuxImage))
          IN  SubSeq(package, m[1][1], m[4][2])

\* Python's order on strings: by code point, a proper prefix first
RECURSIVE LexLess(_, _)
LexLess(a, b) ==
  IF b = <<>> THEN FALSE
  ELSE IF a = <<>> THEN TRUE
  ELSE IF Head(a) # Head(b) THEN Ord(Head(a)) < Ord(Head(b))
  ELSE LexLess(Tail(a), Tail(b))

\* sorted(set(...)) of strings
RECURSIVE SortedSet(_)
SortedSet(S) ==
  IF S = {} THEN <<>>
  ELSE LET m == CHOOSE x \in S : \A y \in S : x = y \/ LexLess(x, y)
       IN  <<m>> \o SortedSet(S \ {m})

\* parts[1] of line.split(), or None when len(parts) < 2
PackageOf(line) ==
  LET parts == Split(line) IN IF Len(parts) >= 2 THEN parts[2] ELSE None

\* Mutant of KernelOfLine: the state of the package is not looked at
KernelOfLineAnyState(line) ==
  IF Contains(LinuxImage, line)
  THEN LET package == PackageOf(line)
       IN  IF package = None THEN None ELSE ImageVersion(package)
  ELSE None

\* What one line of dpkg -l adds to `kernels` (lines 40-48), None for nothing
KernelOfLine(line) ==
  IF StartsWith(line, II) /\ Contains(LinuxImage, line)
  THEN LET package == PackageOf(line)
       IN  IF package = None THEN None ELSE ImageVersion(package)
  ELSE None

\* The versions appended to `kernels` by the loop of get_installed_kernels
AppendedKernels(lines) ==
  {KernelOfLine(lines[i]) : i \in 1..Len(lines)} \ {None}

\* get_installed_kernels on the lines printed by dpkg -l
get_installed_kernels(lines) == SortedSet(AppendedKernels(lines))

\* Mutant of parse_kernel_version: the revision is left out of the key
ParseWithoutRevision(version) ==
  LET m == MatchVersionAt(version, 1)
  IN  IF m = <<>> THEN <<>>
      ELSE [g \in 1..4 |->
              IF g = 4 THEN 0 ELSE ToInt(SubSeq(version, m[g][1], m[g][2]))]

\* parse_kernel_version: the tuple of the four numbers, or <<>> where the
\* source raises ValueError. re.match anchors at the start only.
parse_kernel_version(version) ==
  LET m == MatchVersionAt(version, 1)
  IN  IF m = <<>> THEN <<>>
      ELSE [g \in 1..4 |-> ToInt(SubSeq(version, m[g][1], m[g][2]))]

\* Python's order on tuples of four ints
TupleLess(a, b) ==
  \E i \in 1..4 : a[i] < b[i] /\ \A j \in 1..(i - 1) : a[j] = b[j]

\* One step of a stable sort: x goes after every element whose key is not larger
RECURSIVE InsertByKey(_, _)
InsertByKey(sorted, x) ==
  IF sorted = <<>> THEN <<x>>
  ELSE IF TupleLess(parse_kernel_version(x), parse_kernel_version(Head(sorted)))
       THEN <<x>> \o sorted
       ELSE <<Head(sorted)>> \o InsertByKey(Tail(sorted), x)

\* list.sort(key=self.parse_kernel_version): stable, ascending
RECURSIVE SortByVersion(_)
SortByVersion(seq) ==
  IF seq = <<>> THEN <<>>
  ELSE InsertByKey(SortByVersion(SubSeq(seq, 1, Len(seq) - 1)), seq[Len(seq)])

\* removable_kernels of find_oldest_removable_kernel (lines 63-66)
RemovableKernels(lines, current) ==
  SelectSeq(get_installed_kernels(lines), LAMBDA k : k # current)

\* Whether the sort of line 78 raises ValueError
SortRaises(seq) == \E i \in 1..Len(seq) : parse_kernel_version(seq[i]) = <<>>

\* find_oldest_removable_kernel, given the dpkg -l lines and self.current_kernel
find_oldest_removable_kernel(lines, current) ==
  LET removable_kernels == RemovableKernels(lines, current)
  IN  IF removable_kernels = <<>> THEN None
      ELSE IF Len(removable_kernels) <= 1 THEN None
      ELSE IF SortRaises(removable_kernels) THEN None
      ELSE SortByVersion(removable_kernels)[1]

\* any(prefix in package for prefix in [...]) (line 96)
IsKernelPackage(package) ==
  \E i \in 1..Len(KernelPrefixes) : Contains(KernelPrefixes[i], package)

\* get_kernel_packages: the package names, in line order
get_kernel_packages(lines, kernel_version) ==
  LET hit(line) == /\ StartsWith(line, II)
                   /\ Contains(kernel_version, line)
                   /\ PackageOf(line) # None
                   /\ IsKernelPackage(PackageOf(line))
      sel == SelectSeq(lines, hit)
  IN  [i \in 1..Len(sel) |-> PackageOf(sel[i])]

\* Mutant of IsAffirmative: everything but a refusal counts as a yes
IsNotRefusal(typed) == Strip(Lower(typed)) \notin {<<"n", "o", "n">>, <<"n">>, <<"n", "o">>}

\* The value confirm_removal returns for the text typed at the prompt
IsAffirmative(typed) == Strip(Lower(typed)) \in Affirmative

(* ------------------------------------------------------------------ *)
(* The host: what the external commands can print                      *)
(* ------------------------------------------------------------------ *)

\* Lines dpkg -l can print (state, package name, package version), in the
\* order dpkg prints them, by package name
DpkgPool == <<
  <<"i", "i", " ", " ", "l", "i", "n", "u", "x", "-", "h", "e", "a", "d",
    "e", "r", "s", "-", "5", ".", "4", ".", "0", "-", "1", "-", "g", "e",
    "n", "e", "r", "i", "c", " ", " ", "5", ".", "4", ".", "0", "-", "1",
    ".", "1">>,
  <<"i", "i", " ", " ", "l", "i", "n", "u", "x", "-", "i", "m", "a", "g",
    "e", "-", "5", ".", "1", "0", ".", "0", "-", "3", "-", "g", "e", "n",
    "e", "r", "i", "c", " ", " ", "5", ".", "1", "0", ".", "0", "-", "3",
    ".", "4">>,
  <<"r", "c", " ", " ", "l", "i", "n", "u", "x", "-", "i", "m", "a", "g",
    "e", "-", "5", ".", "3", ".", "0", "-", "7", "-", "g", "e", "n", "e",
    "r", "i", "c", " ", " ", "5", ".", "3", ".", "0", "-", "7", ".", "8">>,
  <<"i", "i", " ", " ", "l", "i", "n", "u", "x", "-", "i", "m", "a", "g",
    "e", "-", "5", ".", "4", ".", "0", "-", "1", "-", "g", "e", "n", "e",
    "r", "i", "c", " ", " ", "5", ".", "4", ".", "0", "-", "1", ".", "1">>,
  <<"i", "i", " ", " ", "l", "i", "n", "u", "x", "-", "i", "m", "a", "g",
    "e", "-", "5", ".", "4", ".", "0", "-", "1", "0", "-", "g", "e", "n",
    "e", "r", "i", "c", " ", " ", "5", ".", "4", ".", "0", "-", "1", "0",
    ".", "1", "1">>,
  <<"i", "i", " ", " ", "l", "i", "n", "u", "x", "-", "i", "m", "a", "g",
    "e", "-", "5", ".", "8", ".", "0", "-", "2", "-", "g", "e", "n", "e",
    "r", "i", "c", " ", " ", "5", ".", "8", ".", "0", "-", "2", ".", "3">>,
  <<"i", "i", " ", " ", "l", "i", "n", "u", "x", "-", "i", "m", "a", "g",
    "e", "-", "g", "e", "n", "e", "r", "i", "c", " ", " ", "5", ".", "1",
    "0", ".", "0", ".", "3", ".", "4">>,
  <<"i", "i", " ", " ", "l", "i", "n", "u", "x", "-", "m", "o", "d", "u",
    "l", "e", "s", "-", "5", ".", "8", ".", "0", "-", "2", "-", "g", "e",
    "n", "e", "r", "i", "c", " ", " ", "5", ".", "8", ".", "0", "-", "2",
    ".", "3">>,
  <<"i", "i", " ", " ", "v", "i", "m", " ", " ", "2", ":", "8", ".", "2">>
>>

\* Largest number of lines of one dpkg -l listing
MaxLines == 4

\* The listings of the host: dpkg prints each package once, in name order
RECURSIVE PickLines(_, _)
PickLines(S, i) ==
  IF i > Len(DpkgPool) THEN <<>>
  ELSE (IF i \in S THEN <<DpkgPool[i]>> ELSE <<>>) \o PickLines(S, i + 1)

Listings ==
  {PickLines(S, 1) : S \in {T \in SUBSET (1..Len(DpkgPool)) : Cardinality(T) <= MaxLines}}

\* What uname -r can print: flavoured release strings, and a bare one
UnameOutputs == {
  <<"5", ".", "1", "0", ".", "0", "-", "3", "-", "g", "e", "n", "e", "r",
    "i", "c", "\n">>,
  <<"5", ".", "4", ".", "0", "-", "1", "-", "g", "e", "n", "e", "r", "i",
    "c", "\n">>,
  <<"5", ".", "4", ".", "0", "-", "1", "0", "-", "g", "e", "n", "e", "r",
    "i", "c", "\n">>,
  <<"5", ".", "1", "0", ".", "0", "-", "3", "\n">>
}

\* Texts the user can type at the confirmation prompt
TypedAnswers == {
  <<"o", "u", "i">>,
  <<" ", "Y", "E", "S", "\n">>,
  <<"O">>,
  <<"y">>,
  <<"n", "o", "n">>,
  <<>>,
  <<"n">>,
  <<"y", "e", "s", " ", "p", "l", "e", "a", "s", "e">>
}

\* How a blocking call can end besides returning normally: a non-zero exit
\* status, a command that cannot be executed (OSError), Ctrl-C
Failures == {"nonzero", "oserror", "interrupt"}

(* ------------------------------------------------------------------ *)
(* State                                                               *)
(* ------------------------------------------------------------------ *)

VARIABLES
  pc,              \* where the process is: the next blocking call, or "exit"
  dry_run,         \* args.dry_run
  show_status,     \* args.status
  verbose,         \* args.verbose, copied to cleaner.verbose
  is_root,         \* os.geteuid() = 0
  listing,         \* the lines dpkg -l prints now (the installed packages)
  current_kernel,  \* self.current_kernel
  oldest_kernel,   \* oldest_kernel of run()
  packages,        \* packages of remove_kernel()
  calls,           \* the external commands and prompts invoked so far, in order
  purge_args,      \* the package names handed to apt-get remove --purge
  purge_result,    \* how the purge command ended, "none" before it
  grub_result,     \* how update-grub ended, "none" before it
  response,        \* the text typed at the confirmation prompt
  out,             \* what was printed, in order
  exit_code,       \* the exit status of the process, -1 while it runs
  outcome,         \* how the run ended, "running" while it runs
  query_result,    \* how the latest uname -r or dpkg -l ended, "none" before
  given,           \* a method called on its own: its name and arguments
  returned         \* what that method returned

vars == <<pc, dry_run, show_status, verbose, is_root, listing, current_kernel,
          oldest_kernel, packages, calls, purge_args, purge_result,
          grub_result, response, out, exit_code, outcome, query_result,
          given, returned>>

\* The call of one method on its own; a run of main() leaves it alone
unit == <<given, returned>>

args == <<dry_run, show_status, verbose, is_root>>

Init ==
  /\ pc = "main"
  /\ dry_run \in BOOLEAN
  /\ show_status \in BOOLEAN
  /\ verbose \in BOOLEAN
  /\ is_root \in BOOLEAN
  /\ listing \in Listings
  /\ current_kernel = None
  /\ oldest_kernel = None
  /\ packages = <<>>
  /\ calls = <<>>
  /\ purge_args = <<>>
  /\ purge_result = "none"
  /\ grub_result = "none"
  /\ response = <<>>
  /\ out = <<>>
  /\ exit_code = -1
  /\ outcome = "running"
  /\ query_result = "none"
  /\ given = <<>>
  /\ returned = <<>>

(* ------------------------------------------------------------------ *)
(* Printing, returning and raising                                     *)
(* ------------------------------------------------------------------ *)

\* log(message, level): printed when verbose or when the level is ERROR
Log(level, message) ==
  IF verbose \/ level = "ERROR" THEN << <<level, message>> >> ELSE <<>>

\* print(message)
Printed(message) == << <<"PRINT", message>> >>

\* run() returns to main(), which falls off its end: exit status 0
Finish(how, printed) ==
  /\ pc' = "exit"
  /\ exit_code' = 0
  /\ outcome' = how
  /\ out' = out \o printed

\* Mutant of Abort: the handlers print and forget sys.exit(1)
AbortWithoutExitStatus(failure, printed) ==
  /\ pc' = "exit"
  /\ exit_code' = 0
  /\ outcome' = IF failure = "interrupt" THEN "interrupted" ELSE "error"
  /\ out' = out \o printed \o
            Printed(IF failure = "interrupt" THEN "Interruption par l'utilisateur."
                                            ELSE "Erreur")

\* An exception reaches the handlers of main(): exit status 1
Abort(failure, printed) ==
  /\ pc' = "exit"
  /\ exit_code' = 1
  /\ outcome' = IF failure = "interrupt" THEN "interrupted" ELSE "error"
  /\ out' = out \o printed \o
            Printed(IF failure = "interrupt" THEN "Interruption par l'utilisateur."
                                          ELSE "Erreur")

\* The log lines of find_oldest_removable_kernel
FindLog(lines, current) ==
  LET removable_kernels == RemovableKernels(lines, current)
  IN  IF Len(removable_kernels) = 1
      THEN Log("INFO", "Seul le noyau actuel et un noyau de sauvegarde sont installes")
      ELSE IF Len(removable_kernels) > 1 /\ SortRaises(removable_kernels)
      THEN Log("ERROR", "Erreur lors du tri des versions")
      ELSE <<>>

\* list reversed
Reverse(seq) == [i \in 1..Len(seq) |-> seq[Len(seq) + 1 - i]]

\* sorted(installed_kernels, key=self.parse_kernel_version, reverse=True):
\* descending, equal keys keep their order
SortedNewestFirst(seq) == Reverse(SortByVersion(Reverse(seq)))

\* The lines show_status prints for the installed kernels
StatusLines(kernels, current) ==
  [i \in 1..Len(kernels) |->
     <<"PRINT", kernels[i], IF kernels[i] = current THEN " (ACTUEL)" ELSE "">>]

\* The host after apt-get removed the packages `gone`
RemoveLines(lines, gone) ==
  SelectSeq(lines, LAMBDA l : PackageOf(l) \notin gone)

Range(seq) == {seq[i] : i \in 1..Len(seq)}

(* ------------------------------------------------------------------ *)
(* Steps: one per blocking call, each with all the code up to the next *)
(* ------------------------------------------------------------------ *)

\* Mutant of NeedsRoot: the exemption of --dry-run is forgotten
NeedsRootUnlessStatus == ~show_status /\ ~is_root

\* The test of line 206
NeedsRoot == ~dry_run /\ ~show_status /\ ~is_root

\* main(): the privilege check
Main ==
  /\ pc = "main"
  /\ IF NeedsRoot
     THEN /\ pc' = "exit"
          /\ exit_code' = 1
          /\ outcome' = "privilege"
          /\ out' = out \o Printed("Ce script necessite les privileges root")
     ELSE /\ pc' = "init"
          /\ UNCHANGED <<exit_code, outcome, out>>
  /\ UNCHANGED <<args, unit, listing, current_kernel, oldest_kernel, packages,
                 calls, purge_args, purge_result, grub_result, response,
                 query_result>>

\* Mutant of QueryFails: uname -r and dpkg -l are run without check=True
QueryFailsUnchecked(ended) == ended \in {"oserror", "interrupt"}

\* Whether subprocess.run(..., check=True) of a query raises: when the command
\* cannot be started, is interrupted, or exits non-zero (lines 28, 36, 87)
QueryFails(ended) == ended # "0"

\* KernelCleaner(): uname -r; then the start of run()
GetCurrentKernel ==
  /\ pc = "init"
  /\ calls' = Append(calls, "uname")
  /\ \E ended \in {"0"} \cup Failures :
       /\ query_result' = ended
       /\ IF QueryFails(ended)
          THEN /\ Abort(ended, <<>>)
               /\ UNCHANGED current_kernel
          ELSE \E stdout \in UnameOutputs :
                 /\ current_kernel' = Strip(stdout)
                 /\ pc' = IF show_status THEN "status" ELSE "select"
                 /\ out' = out \o Log("INFO", "Demarrage du nettoyage")
                               \o Log("INFO", "Noyau actuel")
                               \o (IF show_status
                                   THEN Printed("Noyau actuel") \o
                                        Printed("Noyaux installes")
                                   ELSE <<>>)
                 /\ UNCHANGED <<exit_code, outcome>>
  /\ UNCHANGED <<args, unit, listing, oldest_kernel, packages, purge_args,
                 purge_result, grub_result, response>>

\* show_status(): the first dpkg -l and the list of kernels
ShowStatusList ==
  /\ pc = "status"
  /\ calls' = Append(calls, "dpkg")
  /\ \/ \E ended \in {"0"} \cup Failures :
          /\ QueryFails(ended)
          /\ query_result' = ended
          /\ Abort(ended, <<>>)
     \/ \E ended \in {"0"} \cup Failures :
          /\ ~QueryFails(ended)
          /\ query_result' = ended
          /\ LET installed_kernels == get_installed_kernels(listing)
             IN  IF SortRaises(installed_kernels)
                 THEN Abort("valueerror", <<>>)
                 ELSE /\ pc' = "status_oldest"
                      /\ out' = out \o
                                StatusLines(SortedNewestFirst(installed_kernels),
                                            current_kernel)
                      /\ UNCHANGED <<exit_code, outcome>>
  /\ UNCHANGED <<args, unit, listing, current_kernel, oldest_kernel, packages,
                 purge_args, purge_result, grub_result, response>>

\* show_status(): the second dpkg -l, in find_oldest_removable_kernel
ShowStatusOldest ==
  /\ pc = "status_oldest"
  /\ calls' = Append(calls, "dpkg")
  /\ \/ \E ended \in {"0"} \cup Failures :
          /\ QueryFails(ended)
          /\ query_result' = ended
          /\ Abort(ended, <<>>)
     \/ \E ended \in {"0"} \cup Failures :
          /\ ~QueryFails(ended)
          /\ query_result' = ended
          /\ LET oldest == find_oldest_removable_kernel(listing, current_kernel)
             IN  Finish("status",
                        FindLog(listing, current_kernel) \o
                        (IF oldest # None
                         THEN << <<"PRINT", "Plus ancien noyau supprimable", oldest>> >>
                         ELSE Printed("Aucun noyau supprimable trouve")))
  /\ UNCHANGED <<args, unit, listing, current_kernel, oldest_kernel, packages,
                 purge_args, purge_result, grub_result, response>>

\* run(): find_oldest_removable_kernel and the test of its result
Select ==
  /\ pc = "select"
  /\ calls' = Append(calls, "dpkg")
  /\ \/ \E ended \in {"0"} \cup Failures :
          /\ QueryFails(ended)
          /\ query_result' = ended
          /\ Abort(ended, <<>>)
          /\ UNCHANGED oldest_kernel
     \/ \E ended \in {"0"} \cup Failures :
          /\ ~QueryFails(ended)
          /\ query_result' = ended
          /\ LET oldest == find_oldest_removable_kernel(listing, current_kernel)
             IN  IF oldest = None
                 THEN /\ Finish("nothing", FindLog(listing, current_kernel) \o
                                           Printed("Aucun noyau ancien a supprimer."))
                      /\ UNCHANGED oldest_kernel
                 ELSE /\ oldest_kernel' = oldest
                      /\ pc' = "resolve"
                      /\ out' = out \o FindLog(listing, current_kernel)
                                    \o Printed("Plus ancien noyau trouve")
                      /\ UNCHANGED <<exit_code, outcome>>
  /\ UNCHANGED <<args, unit, listing, current_kernel, packages, purge_args,
                 purge_result, grub_result, response>>

\* Mutant of Resolve: the dry-run test comes before the test of an empty list
ResolveDryRunFirst ==
  /\ pc = "resolve"
  /\ calls' = Append(calls, "dpkg")
  /\ \E ended \in {"0"} \cup Failures :
       /\ query_result' = ended
       /\ IF QueryFails(ended)
          THEN /\ Abort(ended, <<>>)
               /\ UNCHANGED packages
          ELSE LET found == get_kernel_packages(listing, oldest_kernel)
               IN  /\ packages' = found
                   /\ IF dry_run
                      THEN Finish("dryrun", Log("INFO", "Packages a supprimer") \o
                                            Log("INFO", "Mode simulation"))
                      ELSE IF found = <<>>
                      THEN Finish("failed", Log("INFO", "Aucun package trouve") \o
                                            Printed("Echec de la suppression du noyau."))
                      ELSE /\ pc' = "confirm"
                           /\ out' = out \o Log("INFO", "Packages a supprimer")
                                         \o Printed("CONFIRMATION REQUISE")
                           /\ UNCHANGED <<exit_code, outcome>>
  /\ UNCHANGED <<args, unit, listing, current_kernel, oldest_kernel, purge_args,
                 purge_result, grub_result, response>>

\* Mutant of Resolve: the dry-run test of line 113 is missing
ResolveWithoutDryRunTest ==
  /\ pc = "resolve"
  /\ calls' = Append(calls, "dpkg")
  /\ \E ended \in {"0"} \cup Failures :
       /\ query_result' = ended
       /\ IF QueryFails(ended)
          THEN /\ Abort(ended, <<>>)
               /\ UNCHANGED packages
          ELSE LET found == get_kernel_packages(listing, oldest_kernel)
               IN  /\ packages' = found
                   /\ IF found = <<>>
                      THEN Finish("failed", Log("INFO", "Aucun package trouve") \o
                                            Printed("Echec de la suppression du noyau."))
                      ELSE /\ pc' = "confirm"
                           /\ out' = out \o Log("INFO", "Packages a supprimer")
                                         \o Printed("CONFIRMATION REQUISE")
                           /\ UNCHANGED <<exit_code, outcome>>
  /\ UNCHANGED <<args, unit, listing, current_kernel, oldest_kernel, purge_args,
                 purge_result, grub_result, response>>

\* remove_kernel(): get_kernel_packages, the empty test and the dry-run test
Resolve ==
  /\ pc = "resolve"
  /\ calls' = Append(calls, "dpkg")
  /\ \/ \E ended \in {"0"} \cup Failures :
          /\ QueryFails(ended)
          /\ query_result' = ended
          /\ Abort(ended, <<>>)
          /\ UNCHANGED packages
     \/ \E ended \in {"0"} \cup Failures :
          /\ ~QueryFails(ended)
          /\ query_result' = ended
          /\ LET found == get_kernel_packages(listing, oldest_kernel)
             IN  /\ packages' = found
                 /\ IF found = <<>>
                    THEN Finish("failed", Log("INFO", "Aucun package trouve") \o
                                          Printed("Echec de la suppression du noyau."))
                    ELSE IF dry_run
                    THEN Finish("dryrun", Log("INFO", "Packages a supprimer") \o
                                          Log("INFO", "Mode simulation"))
                    ELSE /\ pc' = "confirm"
                         /\ out' = out \o Log("INFO", "Packages a supprimer")
                                       \o Printed("CONFIRMATION REQUISE")
                         /\ UNCHANGED <<exit_code, outcome>>
  /\ UNCHANGED <<args, unit, listing, current_kernel, oldest_kernel, purge_args,
                 purge_result, grub_result, response>>

\* Mutant of Confirm: an answer that is neither a yes nor a no is asked for
\* again (calls records the prompt once)
ConfirmAsksAgain ==
  /\ pc = "confirm"
  /\ calls' = IF "prompt" \in Range(calls) THEN calls ELSE Append(calls, "prompt")
  /\ \/ \E typed \in TypedAnswers :
          /\ response' = typed
          /\ IF IsAffirmative(typed)
             THEN /\ pc' = "purge"
                  /\ out' = out \o Log("INFO", "Execution")
                  /\ UNCHANGED <<exit_code, outcome>>
             ELSE IF IsNotRefusal(typed)
             THEN UNCHANGED <<pc, out, exit_code, outcome>>
             ELSE Finish("aborted", Printed("Echec de la suppression du noyau."))
     \/ \E f \in {"eof", "interrupt"} :
          /\ Abort(f, <<>>)
          /\ UNCHANGED response
  /\ UNCHANGED <<args, unit, listing, current_kernel, oldest_kernel, packages,
                 purge_args, purge_result, grub_result, query_result>>

\* confirm_removal(): the prompt, and the test of line 119
Confirm ==
  /\ pc = "confirm"
  /\ calls' = Append(calls, "prompt")
  /\ \/ \E f \in {"eof", "interrupt"} :
          /\ Abort(f, <<>>)
          /\ UNCHANGED response
     \/ \E typed \in TypedAnswers :
          /\ response' = typed
          /\ IF IsAffirmative(typed)
             THEN /\ pc' = "purge"
                  /\ out' = out \o Log("INFO", "Execution")
                  /\ UNCHANGED <<exit_code, outcome>>
             ELSE Finish("aborted", Printed("Echec de la suppression du noyau."))
  /\ UNCHANGED <<args, unit, listing, current_kernel, oldest_kernel, packages,
                 purge_args, purge_result, grub_result, query_result>>

\* How many of the packages, in order, apt-get has removed when it ends
\* with `result`: all of them on success, none when it could not be started
RemovedCounts(result) ==
  IF result = "0" THEN {Len(packages)}
  ELSE IF result = "oserror" THEN {0}
  ELSE IF result = "nonzero" THEN 0..(Len(packages) - 1)
  ELSE 0..Len(packages)

\* Mutant of ReturnCodeOk: the exit status of apt-get is not looked at
ReturnCodeIgnored(result) == TRUE

\* result.returncode == 0 (line 128)
ReturnCodeOk(result) == result = "0"

\* Mutant of CheckRaises: update-grub is run without check=True
CheckNeverRaises(result) == FALSE

\* subprocess.run(..., check=True) raises CalledProcessError (line 133)
CheckRaises(result) == result # "0"

\* Mutant of Purge: a purge that exits non-zero is tried again
PurgeWithRetry ==
  /\ pc = "purge"
  /\ calls' = Append(calls, "purge")
  /\ purge_args' = packages
  /\ \E result \in {"0"} \cup Failures :
       \E n \in RemovedCounts(result) :
         /\ purge_result' = result
         /\ listing' = RemoveLines(listing, Range(SubSeq(packages, 1, n)))
         /\ IF result \in {"oserror", "interrupt"}
            THEN Abort(result, <<>>)
            ELSE IF ReturnCodeOk(result)
            THEN /\ pc' = "grub"
                 /\ out' = out \o Log("INFO", "Noyau supprime avec succes")
                               \o Log("INFO", "Mise a jour de GRUB...")
                 /\ UNCHANGED <<exit_code, outcome>>
            ELSE /\ out' = out \o Log("ERROR", "Erreur lors de la suppression")
                 /\ UNCHANGED <<pc, exit_code, outcome>>
  /\ UNCHANGED <<args, unit, current_kernel, oldest_kernel, packages,
                 grub_result, response, query_result>>

\* remove_kernel(): apt-get remove --purge and the test of its status
Purge ==
  /\ pc = "purge"
  /\ calls' = Append(calls, "purge")
  /\ purge_args' = packages
  /\ \/ /\ purge_result' = "oserror"
        /\ UNCHANGED listing
        /\ Abort("oserror", <<>>)
     \/ \E result \in {"0", "nonzero", "interrupt"} :
          \E n \in RemovedCounts(result) :
            /\ purge_result' = result
            /\ listing' = RemoveLines(listing, Range(SubSeq(packages, 1, n)))
            /\ IF result = "interrupt"
               THEN Abort(result, <<>>)
               ELSE IF ReturnCodeOk(result)
               THEN /\ pc' = "grub"
                    /\ out' = out \o Log("INFO", "Noyau supprime avec succes")
                                  \o Log("INFO", "Mise a jour de GRUB...")
                    /\ UNCHANGED <<exit_code, outcome>>
               ELSE Finish("failed", Log("ERROR", "Erreur lors de la suppression") \o
                                     Printed("Echec de la suppression du noyau."))
  /\ UNCHANGED <<args, unit, current_kernel, oldest_kernel, packages,
                 grub_result, response, query_result>>

\* remove_kernel(): update-grub, then the end of run()
UpdateGrub ==
  /\ pc = "grub"
  /\ calls' = Append(calls, "grub")
  /\ \E result \in {"0"} \cup Failures :
       /\ grub_result' = result
       /\ IF result \in {"oserror", "interrupt"}
          THEN Abort(result, <<>>)
          ELSE IF CheckRaises(result)
          THEN Finish("failed", Log("ERROR", "Erreur lors de la suppression") \o
                                Printed("Echec de la suppression du noyau."))
          ELSE Finish("done", Printed("Noyau supprime avec succes!") \o
                              Printed("Redemarrage recommande"))
  /\ UNCHANGED <<args, unit, listing, current_kernel, oldest_kernel, packages,
                 purge_args, purge_result, response, query_result>>

Next ==
  \/ Main
  \/ GetCurrentKernel
  \/ ShowStatusList
  \/ ShowStatusOldest
  \/ Select
  \/ Resolve
  \/ Confirm
  \/ Purge
  \/ UpdateGrub

Spec == Init /\ [][Next]_vars

\* Every blocking call returns: uname, dpkg, input(), apt-get and update-grub
\* all end, with any of their outcomes
FairSpec == Spec /\ WF_vars(Next)

(* ------------------------------------------------------------------ *)
(* Vocabulary of the properties                                        *)
(* ------------------------------------------------------------------ *)

\* The major.minor.patch-revision a release string starts with
VersionPrefix(release) ==
  LET m == MatchVersionAt(release, 1)
  IN  IF m = <<>> THEN release ELSE SubSeq(release, 1, m[4][2])

\* The version of the running kernel, once uname -r has answered
RunningVersion == VersionPrefix(current_kernel)

\* The kernel version a package belongs to: the version that follows one of
\* the three kernel package prefixes, None for any other package
PackageKernel(package) ==
  LET fits == {i \in 1..Len(KernelPrefixes) :
                 /\ StartsWith(package, KernelPrefixes[i])
                 /\ MatchVersionAt(package, Len(KernelPrefixes[i]) + 1) # <<>>}
  IN  IF fits = {} THEN None
      ELSE LET i == CHOOSE f \in fits : TRUE
               m == MatchVersionAt(package, Len(KernelPrefixes[i]) + 1)
           IN  SubSeq(package, m[1][1], m[4][2])

\* The installed kernel versions other than the running one
NonRunningInstalled == Range(get_installed_kernels(listing)) \ {RunningVersion}

Called(command) == \E i \in 1..Len(calls) : calls[i] = command

IsPrefixOf(s, t) == Len(s) <= Len(t) /\ \A i \in 1..Len(s) : s[i] = t[i]

\* The only order in which a run invokes its blocking calls
FullRun == <<"uname", "dpkg", "dpkg", "prompt", "purge", "grub">>

(* ------------------------------------------------------------------ *)
(* Properties                                                          *)
(* ------------------------------------------------------------------ *)

\* C1: once the purge command has been invoked, none of the packages handed
\* to it belongs to the running kernel, and some installed kernel other than
\* the running one is still listed.
C1_RunningAndFallbackPreserved ==
  Called("purge") =>
    /\ \A i \in 1..Len(purge_args) : PackageKernel(purge_args[i]) # RunningVersion
    /\ NonRunningInstalled # {}

\* C2: the kernel selected for removal is never the version
\* (major.minor.patch-revision) of the running kernel, whatever uname -r
\* printed after it.
C2_RunningNeverSelected ==
  oldest_kernel # None => oldest_kernel # RunningVersion

\* C3: before any purge, when fewer than 2 installed kernel versions differ
\* from the running kernel, selection returned none and the run is at no
\* point of the prompt, the purge or the bootloader regeneration.
C3_SpareKernelGuard ==
  (current_kernel # None /\ purge_result = "none"
     /\ Cardinality(NonRunningInstalled) < 2) =>
    /\ oldest_kernel = None
    /\ pc \notin {"resolve", "confirm", "purge", "grub"}
    /\ ~Called("prompt")

\* C4: when at least 2 installed kernel versions differ from the running
\* kernel, selection does not return none, and what it returns is an installed
\* non-running version that no other installed non-running version precedes
\* in numeric tuple order.
C4_OldestNonRunningSelected ==
  (current_kernel # None /\ purge_result = "none"
     /\ Cardinality(NonRunningInstalled) >= 2) =>
    /\ outcome # "nothing"
    /\ oldest_kernel # None =>
         /\ oldest_kernel \in NonRunningInstalled
         /\ \A k \in NonRunningInstalled :
              ~TupleLess(parse_kernel_version(k), parse_kernel_version(oldest_kernel))

\* The typed answers that, lower-cased and trimmed, are oui, o, yes or y
AffirmativeTyped == {<<"o", "u", "i">>, <<" ", "Y", "E", "S", "\n">>, <<"O">>, <<"y">>}

\* C5: in a dry run the prompt, the purge command and the bootloader
\* regeneration are never invoked; once the package group is resolved the run
\* is over, with the kernel found printed and, when verbose, the package list
\* and the simulation notice logged last.
C5_DryRunNeverMutates ==
  dry_run =>
    /\ ~Called("prompt") /\ ~Called("purge") /\ ~Called("grub")
    /\ pc \notin {"confirm", "purge", "grub"}
    /\ purge_result = "none" /\ grub_result = "none"
    /\ packages # <<>> =>
         /\ pc = "exit" /\ outcome = "dryrun" /\ exit_code = 0
         /\ calls = <<"uname", "dpkg", "dpkg">>
         /\ \E i \in 1..Len(out) : out[i] = <<"PRINT", "Plus ancien noyau trouve">>
         /\ verbose => /\ Len(out) >= 2
                       /\ out[Len(out) - 1] = <<"INFO", "Packages a supprimer">>
                       /\ out[Len(out)] = <<"INFO", "Mode simulation">>

C5_Witness ==
  dry_run /\ ~is_root /\ outcome = "dryrun" /\ Len(packages) >= 2

\* C6: the purge command is invoked only after the prompt returned an
\* affirmative answer; after any other answer, or none, the run is over and
\* neither the purge command nor the bootloader regeneration was invoked.
C6_ConfirmationGate ==
  /\ Called("purge") => Called("prompt") /\ response \in AffirmativeTyped
  /\ pc \in {"purge", "grub"} => response \in AffirmativeTyped
  /\ (Called("prompt") /\ response \notin AffirmativeTyped) =>
       /\ pc = "exit"
       /\ ~Called("purge") /\ ~Called("grub")
       /\ purge_result = "none" /\ grub_result = "none"

C6_Witness ==
  Called("purge") /\ response = <<" ", "Y", "E", "S", "\n">>

\* C7: the blocking calls of a run are a prefix of resolution, prompt, purge,
\* bootloader regeneration in that order; the bootloader regeneration was
\* invoked exactly when the purge command exited with status 0, and the run
\* ends in success only after the bootloader regeneration succeeded.
C7_WorkflowOrder ==
  /\ IsPrefixOf(calls, FullRun)
  /\ Called("prompt") => packages # <<>> /\ oldest_kernel # None
  /\ Called("grub") => purge_result = "0"
  /\ (pc = "exit" /\ purge_result = "0") => Called("grub")
  /\ (purge_result = "0" /\ ~Called("grub")) => pc = "grub"
  /\ outcome = "done" => grub_result = "0" /\ calls = FullRun

C7_Witness ==
  outcome = "done" /\ calls = FullRun

\* C8: a finished process has exit status 1 when the privilege check failed,
\* the user interrupted it or an error escaped the workflow, and 0 in every
\* other run; a removal that failed with a non-zero status is one of these.
C8_ExitStatus ==
  /\ pc # "exit" => exit_code = -1 /\ outcome = "running"
  /\ pc = "exit" =>
       /\ exit_code = IF outcome \in {"privilege", "interrupted", "error"} THEN 1 ELSE 0
       /\ outcome \in {"privilege", "interrupted", "error", "status", "dryrun",
                       "nothing", "aborted", "done", "failed"}
       /\ (~dry_run /\ ~show_status /\ ~is_root) => exit_code = 1
       /\ (purge_result \in {"oserror", "interrupt"}
           \/ grub_result \in {"oserror", "interrupt"}) => exit_code = 1
       /\ (purge_result = "nonzero" \/ grub_result \in {"0", "nonzero"}) => exit_code = 0
       /\ (Called("prompt") /\ response # <<>> /\ response \notin AffirmativeTyped)
            => exit_code = 0

C8_Witness ==
  pc = "exit" /\ outcome = "error" /\ exit_code = 1 /\ calls = <<"uname">>

\* C9: a run without --dry-run and --status by a user who is not root ends at
\* the privilege check with exit status 1 and no external command invoked; with
\* --dry-run or --status the check passes and the run goes on to uname -r.
C9_PrivilegeGate ==
  /\ (~dry_run /\ ~show_status /\ ~is_root /\ pc # "main") =>
       pc = "exit" /\ exit_code = 1 /\ outcome = "privilege" /\ calls = <<>>
  /\ (dry_run \/ show_status) =>
       /\ outcome # "privilege"
       /\ pc = "exit" => Called("uname")

C9_Witness ==
  ~dry_run /\ ~show_status /\ ~is_root /\ pc = "exit"

\* The removal failed: the purge command exited non-zero, or it succeeded and
\* the bootloader regeneration failed
RemovalFailed ==
  \/ purge_result = "nonzero"
  \/ purge_result = "0" /\ grub_result \in {"nonzero", "oserror"}

\* An error was printed for the user
ErrorShown ==
  \E i \in 1..Len(out) : out[i] \in {<<"ERROR", "Erreur lors de la suppression">>,
                                    <<"PRINT", "Erreur">>}

\* C10: a run whose removal failed ends in failure, never in success, with an
\* error printed; no step ever adds a line to the package listing, no step
\* after the purge changes it, and no command beyond the workflow's is invoked.
C10_RemovalFailureSurfaced ==
  /\ [](RemovalFailed =>
          /\ pc = "exit"
          /\ outcome \in {"failed", "error"}
          /\ ErrorShown
          /\ IsPrefixOf(calls, FullRun))
  /\ [][/\ Range(listing') \subseteq Range(listing)
        /\ purge_result # "none" => listing' = listing]_vars

C10_Witness ==
  /\ purge_result = "0" /\ grub_result = "nonzero" /\ outcome = "failed"
  /\ \A i \in 1..Len(listing) : PackageOf(listing[i]) \notin Range(purge_args)

\* C11: once uname -r or a dpkg -l could not be executed or exited non-zero,
\* the run is over with an error printed last and exit status 1, and neither
\* the prompt, the purge command nor the bootloader regeneration was invoked.
C11_DiscoveryFailureTerminal ==
  query_result \in {"nonzero", "oserror"} =>
    /\ pc = "exit" /\ exit_code = 1 /\ outcome = "error"
    /\ out # <<>> /\ out[Len(out)] = <<"PRINT", "Erreur">>
    /\ calls[Len(calls)] \in {"uname", "dpkg"}
    /\ ~Called("prompt") /\ ~Called("purge") /\ ~Called("grub")

C11_Witness ==
  /\ query_result = "nonzero" /\ calls = <<"uname", "dpkg", "dpkg">>
  /\ ~show_status /\ ~dry_run /\ pc = "exit"

\* C12: a run with --status invokes neither the prompt, the purge command nor
\* the bootloader regeneration; the lines it prints for the kernels hold every
\* installed version, newest first in numeric tuple order, marked exactly
\* where the version is the running kernel's; its last line is the candidate
\* of find_oldest_removable_kernel, or none.
C12_StatusReadOnly ==
  show_status =>
    /\ ~Called("prompt") /\ ~Called("purge") /\ ~Called("grub")
    /\ pc \notin {"select", "resolve", "confirm", "purge", "grub"}
    /\ pc = "status_oldest" =>
         LET n == Cardinality(AppendedKernels(listing))
             shown == SubSeq(out, Len(out) - n + 1, Len(out))
         IN  /\ Len(out) >= n
             /\ {shown[i][2] : i \in 1..n} = AppendedKernels(listing)
             /\ \A i \in 1..n : \A j \in (i + 1)..n :
                  ~TupleLess(parse_kernel_version(shown[i][2]),
                             parse_kernel_version(shown[j][2]))
             /\ \A i \in 1..n :
                  (shown[i][3] = " (ACTUEL)") <=> (shown[i][2] = RunningVersion)
    /\ outcome = "status" =>
         LET oldest == find_oldest_removable_kernel(listing, current_kernel)
         IN  out[Len(out)] =
               IF oldest = None THEN <<"PRINT", "Aucun noyau supprimable trouve">>
               ELSE <<"PRINT", "Plus ancien noyau supprimable", oldest>>

\* C14: every package get_kernel_packages returned for the selected kernel
\* belongs to that kernel version.
C14_PackageGroupIsolation ==
  \A i \in 1..Len(packages) : PackageKernel(packages[i]) = oldest_kernel

\* How many times a command was invoked
Count(command) == Cardinality({i \in 1..Len(calls) : calls[i] = command})

\* C15: the prompt, the purge command and the bootloader regeneration are
\* each invoked at most once; once an external command has failed the run is
\* over, and no purge or bootloader regeneration follows the failure.
C15_NoRetries ==
  /\ Count("prompt") <= 1 /\ Count("purge") <= 1 /\ Count("grub") <= 1
  /\ (query_result \in Failures \/ purge_result \in Failures
      \/ grub_result \in Failures) => pc = "exit"
  /\ query_result \in Failures => ~Called("purge") /\ ~Called("grub")
  /\ purge_result \in Failures => ~Called("grub")

C15_Witness ==
  purge_result = "nonzero" /\ pc = "exit" /\ Count("purge") = 1

(* ------------------------------------------------------------------ *)
(* Methods called on their own                                         *)
(* ------------------------------------------------------------------ *)

\* str(n) of a natural number
RECURSIVE Decimal(_)
Decimal(n) ==
  IF n < 10 THEN <<Digits[n + 1]>>
  ELSE Decimal(n \div 10) \o <<Digits[(n % 10) + 1]>>

\* The well-formed version string major.minor.patch-revision of four numbers
VersionString(n) ==
  Decimal(n[1]) \o <<".">> \o Decimal(n[2]) \o <<".">> \o Decimal(n[3])
    \o <<"-">> \o Decimal(n[4])

\* The numbers of the versions handed to parse_kernel_version
VersionNumbers == {5, 9, 10} \X {0, 9, 10} \X {0, 9, 10} \X {1, 9, 10}

\* Lines of dpkg -l handed to get_installed_kernels, in package name order;
\* the last one is what split('\n') leaves after the final newline
ProbePool == <<
  <<"i", "i", " ", " ", "l", "i", "n", "u", "x", "-", "h", "e", "a", "d",
    "e", "r", "s", "-", "5", ".", "8", ".", "0", "-", "2", "-", "g", "e",
    "n", "e", "r", "i", "c", " ", " ", "5", ".", "8", ".", "0", "-", "2",
    ".", "3">>,
  <<"i", "i", " ", " ", "l", "i", "n", "u", "x", "-", "i", "m", "a", "g",
    "e", "-", "5", ".", "1", "0", ".", "0", "-", "3", "-", "g", "e", "n",
    "e", "r", "i", "c", " ", " ", "5", ".", "1", "0", ".", "0", "-", "3",
    ".", "4">>,
  <<"r", "c", " ", " ", "l", "i", "n", "u", "x", "-", "i", "m", "a", "g",
    "e", "-", "5", ".", "3", ".", "0", "-", "7", "-", "g", "e", "n", "e",
    "r", "i", "c", " ", " ", "5", ".", "3", ".", "0", "-", "7", ".", "8">>,
  <<"i", "i", " ", " ", "l", "i", "n", "u", "x", "-", "i", "m", "a", "g",
    "e", "-", "5", ".", "4", ".", "0", "-", "1", "-", "g", "e", "n", "e",
    "r", "i", "c", " ", " ", "5", ".", "4", ".", "0", "-", "1", ".", "1">>,
  <<"i", "i", " ", " ", "l", "i", "n", "u", "x", "-", "i", "m", "a", "g",
    "e", "-", "5", ".", "4", ".", "0", "-", "1", "-", "l", "o", "w", "l",
    "a", "t", "e", "n", "c", "y", " ", " ", "5", ".", "4", ".", "0", "-",
    "1", ".", "1">>,
  <<"i", "U", " ", " ", "l", "i", "n", "u", "x", "-", "i", "m", "a", "g",
    "e", "-", "5", ".", "8", ".", "0", "-", "2", "-", "g", "e", "n", "e",
    "r", "i", "c", " ", " ", "5", ".", "8", ".", "0", "-", "2", ".", "3">>,
  <<"i", "i", " ", " ", "l", "i", "n", "u", "x", "-", "i", "m", "a", "g",
    "e", "-", "6", ".", "1", "-", "a", "m", "d", "6", "4", " ", " ", "6",
    ".", "1", ".", "2", "0", "-", "1">>,
  <<"i", "i", " ", " ", "l", "i", "n", "u", "x", "-", "i", "m", "a", "g",
    "e", "-", "g", "e", "n", "e", "r", "i", "c", " ", " ", "5", ".", "1",
    "0", ".", "0", ".", "3", ".", "4">>,
  <<"i", "i", " ", " ", "l", "i", "n", "u", "x", "-", "i", "m", "a", "g",
    "e", "-", "u", "n", "s", "i", "g", "n", "e", "d", "-", "5", ".", "8",
    ".", "0", "-", "2", "-", "g", "e", "n", "e", "r", "i", "c", " ", " ",
    "5", ".", "8", ".", "0", "-", "2", ".", "3">>,
  <<>>
>>

RECURSIVE PickProbes(_, _)
PickProbes(S, i) ==
  IF i > Len(ProbePool) THEN <<>>
  ELSE (IF i \in S THEN <<ProbePool[i]>> ELSE <<>>) \o PickProbes(S, i + 1)

\* The listings handed to get_installed_kernels
ProbeListings ==
  {PickProbes(S, 1) : S \in {T \in SUBSET (1..Len(ProbePool)) : Cardinality(T) <= MaxLines}}

\* A KernelCleaner just constructed and one method call on it
UnitInit ==
  /\ pc = "call"
  /\ given \in {<<"parse_kernel_version", VersionString(a), VersionString(b)>> :
                  a \in VersionNumbers, b \in VersionNumbers}
             \cup {<<"get_installed_kernels", lines>> : lines \in ProbeListings}
  /\ returned = <<>>
  /\ dry_run = FALSE /\ show_status = FALSE /\ verbose = FALSE /\ is_root = FALSE
  /\ listing = <<>>
  /\ current_kernel = None
  /\ oldest_kernel = None
  /\ packages = <<>>
  /\ calls = <<>>
  /\ purge_args = <<>>
  /\ purge_result = "none"
  /\ grub_result = "none"
  /\ response = <<>>
  /\ out = <<>>
  /\ exit_code = -1
  /\ outcome = "running"
  /\ query_result = "none"

\* parse_kernel_version on each of two version strings
CallParseKernelVersion ==
  /\ pc = "call" /\ given[1] = "parse_kernel_version"
  /\ returned' = <<parse_kernel_version(given[2]), parse_kernel_version(given[3])>>
  /\ pc' = "returned"
  /\ UNCHANGED <<args, listing, current_kernel, oldest_kernel, packages, calls,
                 purge_args, purge_result, grub_result, response, out,
                 exit_code, outcome, query_result, given>>

\* get_installed_kernels on a listing that dpkg -l printed with status 0
CallGetInstalledKernels ==
  /\ pc = "call" /\ given[1] = "get_installed_kernels"
  /\ returned' = get_installed_kernels(given[2])
  /\ pc' = "returned"
  /\ UNCHANGED <<args, listing, current_kernel, oldest_kernel, packages, calls,
                 purge_args, purge_result, grub_result, response, out,
                 exit_code, outcome, query_result, given>>

UnitNext == CallParseKernelVersion \/ CallGetInstalledKernels

SpecUnit == UnitInit /\ [][UnitNext]_vars

\* a precedes b: by major, then minor, then patch, then revision
NumericPrecedes(a, b) ==
  \/ a[1] < b[1]
  \/ a[1] = b[1] /\ a[2] < b[2]
  \/ a[1] = b[1] /\ a[2] = b[2] /\ a[3] < b[3]
  \/ a[1] = b[1] /\ a[2] = b[2] /\ a[3] = b[3] /\ a[4] < b[4]

\* C13: for two well-formed version strings, the tuple parse_kernel_version
\* returns for the first is smaller than the one for the second exactly when
\* the first precedes the second by major, then minor, then patch, then
\* revision, compared as numbers.
C13_NumericVersionOrder ==
  (pc = "returned" /\ given[1] = "parse_kernel_version") =>
    /\ returned[1] # <<>> /\ returned[2] # <<>>
    /\ \A a \in VersionNumbers : given[2] = VersionString(a) =>
         \A b \in VersionNumbers : given[3] = VersionString(b) =>
           (TupleLess(returned[1], returned[2]) <=> NumericPrecedes(a, b))

C13_Witness ==
  /\ pc = "returned"
  /\ given = <<"parse_kernel_version", VersionString(<<5, 9, 0, 1>>),
               VersionString(<<5, 10, 0, 1>>)>>
  /\ LexLess(given[3], given[2])
  /\ TupleLess(returned[1], returned[2])

\* The version each line of ProbePool stands for, None where the line is not
\* an installed linux-image- package named major.minor.patch-revision
ProbeVersions == <<
  None,
  <<"5", ".", "1", "0", ".", "0", "-", "3">>,
  None,
  <<"5", ".", "4", ".", "0", "-", "1">>,
  <<"5", ".", "4", ".", "0", "-", "1">>,
  None,
  None,
  None,
  None,
  None
>>

ExpectedVersion(line) ==
  ProbeVersions[CHOOSE k \in 1..Len(ProbePool) : ProbePool[k] = line]

\* C16: get_installed_kernels returns exactly the versions of the lines that
\* are in state ii and name a linux-image- package matching the pattern;
\* every other line is ignored, and no version is returned twice.
C16_VersionDiscovery ==
  (pc = "returned" /\ given[1] = "get_installed_kernels") =>
    /\ Range(returned) =
         {ExpectedVersion(given[2][i]) : i \in 1..Len(given[2])} \ {None}
    /\ \A i \in 1..Len(returned) : \A j \in 1..Len(returned) :
         i # j => returned[i] # returned[j]

C16_Witness ==
  /\ pc = "returned" /\ given[1] = "get_installed_kernels"
  /\ {ProbePool[3], ProbePool[4], ProbePool[5], ProbePool[8]} \subseteq Range(given[2])
  /\ Len(returned) = 1

\* C18: parse_kernel_version accepts every version get_installed_kernels
\* returns, so sorting them by that key raises no invalid-format error.
C18_DiscoveredVersionsParse ==
  (pc = "returned" /\ given[1] = "get_installed_kernels") =>
    /\ \A i \in 1..Len(returned) : parse_kernel_version(returned[i]) # <<>>
    /\ ~SortRaises(returned)

C18_Witness ==
  /\ pc = "returned" /\ given[1] = "get_installed_kernels"
  /\ Len(returned) >= 2
  /\ SortByVersion(returned) # returned

(* ------------------------------------------------------------------ *)
(* remove_kernel called with any kernel version                        *)
(* ------------------------------------------------------------------ *)

\* Versions remove_kernel can be called with: one whose image is installed,
\* one that has modules only, one that is left in state rc, one unknown
KernelArguments == {
  <<"5", ".", "4", ".", "0", "-", "1">>,
  <<"5", ".", "8", ".", "0", "-", "2">>,
  <<"5", ".", "3", ".", "0", "-", "7">>,
  <<"4", ".", "1", "5", ".", "0", "-", "9">>
}

\* run() at the call of remove_kernel(oldest_kernel, dry_run)
RemoveInit ==
  /\ pc = "resolve"
  /\ dry_run \in BOOLEAN
  /\ verbose \in BOOLEAN
  /\ show_status = FALSE
  /\ is_root = TRUE
  /\ listing \in Listings
  /\ current_kernel = <<"5", ".", "1", "0", ".", "0", "-", "3", "-", "g", "e", "n", "e", "r", "i", "c">>
  /\ oldest_kernel \in KernelArguments
  /\ packages = <<>>
  /\ calls = <<>>
  /\ purge_args = <<>>
  /\ purge_result = "none"
  /\ grub_result = "none"
  /\ response = <<>>
  /\ out = <<>>
  /\ exit_code = -1
  /\ outcome = "running"
  /\ query_result = "none"
  /\ given = <<>>
  /\ returned = <<>>

RemoveNext == Resolve \/ Confirm \/ Purge \/ UpdateGrub

SpecRemove == RemoveInit /\ [][RemoveNext]_vars

\* C19: when get_kernel_packages returned an empty list, the removal is
\* reported as failed, in dry-run and in real mode, and neither the prompt,
\* the purge command nor the bootloader regeneration is invoked; the purge
\* command is never invoked with an empty package list.
C19_EmptyGroupFails ==
  /\ (pc # "resolve" /\ query_result = "0" /\ packages = <<>>) =>
       /\ pc = "exit" /\ outcome = "failed"
       /\ out # <<>> /\ out[Len(out)] = <<"PRINT", "Echec de la suppression du noyau.">>
       /\ ~Called("prompt") /\ ~Called("purge") /\ ~Called("grub")
  /\ Called("purge") => purge_args # <<>>

C19_Witness ==
  /\ dry_run /\ pc = "exit" /\ query_result = "0" /\ packages = <<>>
  /\ outcome = "failed" /\ listing # <<>>

\* The ways a run ends
TerminalOutcomes == {"status", "nothing", "dryrun", "aborted", "done", "failed",
                     "error", "interrupted", "privilege"}

\* C17: when every external command and the prompt return, every run
\* eventually ends; it ends with exactly one terminal outcome, which it has
\* from the moment it ends, and takes no step after that.
C17_Termination ==
  /\ <>(pc = "exit")
  /\ [](IF pc = "exit" THEN outcome \in TerminalOutcomes /\ exit_code \in {0, 1}
                       ELSE outcome = "running" /\ exit_code = -1)
  /\ [][pc # "exit"]_vars

C17_Witness ==
  /\ pc = "exit" /\ outcome = "done"
  /\ calls = FullRun

====
